---------------------------- MODULE Spec2Model ----------------------------
(***************************************************************************)
(* Model of boost::asio::gnutls::context (include/boost/asio/gnutls/       *)
(* context.hpp): the movable configuration handle `context`, the shared    *)
(* credential store `context::impl` it points to, the native credential    *)
(* handle the store owns, and the throwing / non-throwing mutator pairs.   *)
(***************************************************************************)
EXTENDS Integers, FiniteSets, Sequences, TLC

(***************************************************************************)
(* Bounds of the model.                                                    *)
(***************************************************************************)
\* context objects (addresses) that may exist at the same time
NumCtx == 2
\* credential stores that may be constructed in one run
MaxStores == 2
\* stream objects that may hold a shared reference to a store
NumStreams == 1
\* key pairs / trust anchors one native credential handle may hold
MaxInstalls == 1

Ctx == 1..NumCtx
StoreId == 1..MaxStores
Stream == 1..NumStreams

\* the null pointer, for m_impl, impl::parent and a stream's reference
nullptr == 0

(***************************************************************************)
(* context_base::method, context_base::options, context_base::verify_mode  *)
(***************************************************************************)
tls == 0
tls_client == 1
tls_server == 2
tlsv1 == 4096
tlsv1_client == 4097
tlsv1_server == 4098
tlsv11 == 4352
tlsv11_client == 4353
tlsv11_server == 4354
tlsv12 == 4608
tlsv12_client == 4609
tlsv12_server == 4610
tlsv13 == 4864
tlsv13_client == 4865
tlsv13_server == 4866
sslv23 == 768
sslv23_client == 769
sslv23_server == 770

Methods ==
    { tls, tls_client, tls_server,
      tlsv1, tlsv1_client, tlsv1_server,
      tlsv11, tlsv11_client, tlsv11_server,
      tlsv12, tlsv12_client, tlsv12_server,
      tlsv13, tlsv13_client, tlsv13_server,
      sslv23, sslv23_client, sslv23_server }

no_sslv3 == 8
verify_none == 0
verify_peer == 1

FileFormats == {"pem", "der"}

(***************************************************************************)
(* boost::system::error_code: a value and a category.  A default           *)
(* constructed error_code is (0, system); `if (ec)` tests the value.       *)
(***************************************************************************)
NoError == [val |-> 0, cat |-> "system"]

Failed(e) == e.val # 0

\* boost::asio::error::operation_not_supported (EOPNOTSUPP, system category)
operation_not_supported == [val |-> 95, cat |-> "system"]

\* error_code(ret, error::get_ssl_category())
SslError(ret) == [val |-> ret, cat |-> "ssl"]

\* what a call of a function returning void hands back
Void == [val |-> 0, cat |-> "void"]

GNUTLS_E_SUCCESS == 0

(***************************************************************************)
(* The native engine.  A credential handle holds the installed key pairs   *)
(* and trust anchors; the engine's status is an input of the model.        *)
(***************************************************************************)
\* gnutls_certificate_set_x509_key_mem2 / _key_file2 with flags 0:
\* zero on success, a negative status otherwise
KeyInstallResults == {GNUTLS_E_SUCCESS, -1}

\* gnutls_certificate_set_x509_system_trust / _trust_mem: the number of
\* certificates processed, or a negative status
TrustResults == {-1, 0, 1}

\* gnutls_certificate_allocate_credentials
AllocResults == {GNUTLS_E_SUCCESS, -25}

NoHandle ==
    [state |-> "none", allocs |-> 0, frees |-> 0, dh |-> "none", keys |-> 0, trust |-> 0]

gnutls_install_key(cr, nret) ==
    IF nret = GNUTLS_E_SUCCESS THEN [cr EXCEPT !.keys = @ + 1] ELSE cr

gnutls_install_trust(cr, nret) ==
    IF nret > 0 THEN [cr EXCEPT !.trust = @ + nret] ELSE cr

(***************************************************************************)
(* context::impl                                                           *)
(***************************************************************************)
NoImpl ==
    [ state |-> "none", use_count |-> 0,
      m |-> tls, parent |-> nullptr, cred |-> nullptr,
      verify |-> 0, opts |-> 0,
      certificate_file |-> "", private_key_file |-> "",
      certificate |-> "", private_key |-> "",
      passphrase |-> "",
      verify_callback |-> "empty", servername_callback |-> "empty" ]

\* impl::impl(context* p_, method m_), once the handle h is allocated
NewImpl(p, m, h) ==
    [NoImpl EXCEPT !.state = "live", !.use_count = 1,
                   !.m = m, !.parent = p, !.cred = h]

is_server(im) == ((im.m \div 2) % 2) # 0

tls_version(im) == im.m \div 65536

\* the configuration a store carries: everything but the ownership fields
Config(im) ==
    [ m |-> im.m, cred |-> im.cred, verify |-> im.verify, opts |-> im.opts,
      certificate_file |-> im.certificate_file,
      private_key_file |-> im.private_key_file,
      certificate |-> im.certificate, private_key |-> im.private_key,
      passphrase |-> im.passphrase,
      verify_callback |-> im.verify_callback,
      servername_callback |-> im.servername_callback ]


(***************************************************************************)
(* The non-throwing mutators.  Each takes the store st, the contents cr of *)
(* the store's native handle, its argument, the caller's error_code ec and *)
(* (where it calls the engine) the engine's status nret, and yields the    *)
(* store and handle afterwards, the error_code afterwards, the value       *)
(* returned, and whether the engine's install was invoked.                 *)
(***************************************************************************)
Result(st, cr, e, ret, called) ==
    [st |-> st, cr |-> cr, ec |-> e, ret |-> ret, called |-> called]

set_options(st, cr, opts, e) ==
    Result([st EXCEPT !.opts = opts], cr, e, e, FALSE)

clear_options(st, cr, e) ==
    Result([st EXCEPT !.opts = 0], cr, e, Void, FALSE)

set_default_verify_paths(st, cr, e, nret) ==
    LET e2 == IF nret # GNUTLS_E_SUCCESS THEN SslError(nret) ELSE e
    IN  Result(st, gnutls_install_trust(cr, nret), e2, e2, TRUE)

set_verify_mode(st, cr, v, e) ==
    Result([st EXCEPT !.verify = v], cr, e, e, FALSE)

set_verify_callback(st, cr, callback, e) ==
    Result([st EXCEPT !.verify_callback = callback], cr, e, e, FALSE)

use_passphrase(st, cr, pass, e) ==
    Result([st EXCEPT !.passphrase = pass], cr, e, e, FALSE)

use_certificate_file(st, cr, filename, format, e) ==
    Result([st EXCEPT !.certificate_file = filename], cr, e, e, FALSE)

use_private_key_file_NoGuard(st, cr, filename, format, e, nret) ==
    LET e2 == IF nret # GNUTLS_E_SUCCESS THEN SslError(nret) ELSE e
    IN  Result([st EXCEPT !.private_key_file = filename],
               gnutls_install_key(cr, nret), e2, e2, TRUE)

use_private_key_file(st, cr, filename, format, e, nret) ==
    IF st.certificate_file = ""
    THEN Result(st, cr, operation_not_supported, operation_not_supported, FALSE)
    ELSE LET e2 == IF nret # GNUTLS_E_SUCCESS THEN SslError(nret) ELSE e
         IN  Result([st EXCEPT !.private_key_file = filename],
                    gnutls_install_key(cr, nret), e2, e2, TRUE)

use_tmp_dh_file_Resets(st, cr, filename, e) ==
    Result(st, cr, NoError, NoError, FALSE)

use_tmp_dh_file(st, cr, filename, e) ==
    Result(st, cr, e, e, FALSE)

use_certificate(st, cr, certificate, format, e) ==
    Result([st EXCEPT !.certificate = certificate], cr, e, e, FALSE)

use_private_key_ChecksFile(st, cr, private_key, format, e, nret) ==
    IF st.certificate_file = ""
    THEN Result(st, cr, operation_not_supported, operation_not_supported, FALSE)
    ELSE LET e2 == IF nret # GNUTLS_E_SUCCESS THEN SslError(nret) ELSE e
         IN  Result([st EXCEPT !.private_key = private_key],
                    gnutls_install_key(cr, nret), e2, e2, TRUE)

use_private_key(st, cr, private_key, format, e, nret) ==
    IF st.certificate = ""
    THEN Result(st, cr, operation_not_supported, operation_not_supported, FALSE)
    ELSE LET e2 == IF nret # GNUTLS_E_SUCCESS THEN SslError(nret) ELSE e
         IN  Result([st EXCEPT !.private_key = private_key],
                    gnutls_install_key(cr, nret), e2, e2, TRUE)

use_tmp_dh(st, cr, dh, e) ==
    Result(st, cr, e, e, FALSE)

set_servername_callback(st, cr, cb, e) ==
    Result([st EXCEPT !.servername_callback = cb], cr, e, e, FALSE)

set_verify_trust(st, cr, certificate, format, e, nret) ==
    LET e2 == IF nret < 0 THEN SslError(nret) ELSE e
    IN  Result(st, gnutls_install_trust(cr, nret), e2, e2, TRUE)

\* the mutators, by name
Mutators ==
    { "set_options", "clear_options", "set_default_verify_paths",
      "set_verify_mode", "set_verify_callback", "use_passphrase",
      "use_certificate_file", "use_private_key_file", "use_tmp_dh_file",
      "use_certificate", "use_private_key", "use_tmp_dh",
      "set_servername_callback", "set_verify_trust" }

\* the mutators that have an overload without the error_code parameter
ThrowingForms ==
    { "set_options", "clear_options", "set_default_verify_paths",
      "set_verify_mode", "set_verify_callback", "use_passphrase",
      "use_certificate_file", "use_private_key_file", "use_tmp_dh_file",
      "use_certificate", "use_private_key", "use_tmp_dh" }

KeyInstallOps == {"use_private_key", "use_private_key_file"}
CertificateOps == {"use_certificate", "use_certificate_file"}
DhOps == {"use_tmp_dh", "use_tmp_dh_file"}

\* the overload of `op` that takes error_code& ec
NonThrowingForm(op, st, cr, arg, format, e, nret) ==
    CASE op = "set_options" -> set_options(st, cr, arg, e)
      [] op = "clear_options" -> clear_options(st, cr, e)
      [] op = "set_default_verify_paths" -> set_default_verify_paths(st, cr, e, nret)
      [] op = "set_verify_mode" -> set_verify_mode(st, cr, arg, e)
      [] op = "set_verify_callback" -> set_verify_callback(st, cr, arg, e)
      [] op = "use_passphrase" -> use_passphrase(st, cr, arg, e)
      [] op = "use_certificate_file" -> use_certificate_file(st, cr, arg, format, e)
      [] op = "use_private_key_file" -> use_private_key_file(st, cr, arg, format, e, nret)
      [] op = "use_tmp_dh_file" -> use_tmp_dh_file(st, cr, arg, e)
      [] op = "use_certificate" -> use_certificate(st, cr, arg, format, e)
      [] op = "use_private_key" -> use_private_key(st, cr, arg, format, e, nret)
      [] op = "use_tmp_dh" -> use_tmp_dh(st, cr, arg, e)
      [] op = "set_servername_callback" -> set_servername_callback(st, cr, arg, e)
      [] op = "set_verify_trust" -> set_verify_trust(st, cr, arg, format, e, nret)

(***************************************************************************)
(* The throwing overloads: a local error_code ec, the non-throwing form    *)
(* called with it (its return value dropped), and `if (ec) throw`.         *)
(***************************************************************************)
ThrowingForm_ChecksNothing(op, st, cr, arg, format, nret) ==
    LET r == NonThrowingForm(op, st, cr, arg, format, NoError, nret)
    IN  [st |-> r.st, cr |-> r.cr, raised |-> FALSE, exc |-> NoError,
         called |-> r.called]

ThrowingForm(op, st, cr, arg, format, nret) ==
    LET r == NonThrowingForm(op, st, cr, arg, format, NoError, nret)
    IN  [st |-> r.st, cr |-> r.cr, raised |-> Failed(r.ec),
         exc |-> IF Failed(r.ec) THEN r.ec ELSE NoError,
         called |-> r.called]

(***************************************************************************)
(* State.                                                                  *)
(*   ctx      each context object: whether it is alive, and its m_impl     *)
(*   impl     the heap of credential stores, with the use count of the     *)
(*            shared_ptr control block                                     *)
(*   native   the native engine's credential handles                      *)
(*   streams  the store each stream holds a shared reference to            *)
(*   nextStore the next store (and handle) to be allocated                 *)
(*   ec       the caller's error_code, passed to the non-throwing forms    *)
(*   hist     history, per store: the method given at construction and     *)
(*            whether a use-certificate call was ever made on it           *)
(*   last     the operation that has just run and what it reported, until  *)
(*            the caller goes on (Return)                                  *)
(***************************************************************************)
VARIABLES ctx, impl, native, streams, nextStore, ec, hist, last

vars == <<ctx, impl, native, streams, nextStore, ec, hist, last>>

NoContext == [alive |-> FALSE, m_impl |-> nullptr]

NoHist == [m |-> tls, certEver |-> FALSE]

NoCall ==
    [ op |-> "none", form |-> "none", c |-> 0, src |-> 0, store |-> 0,
      ecIn |-> NoError, ecOut |-> NoError, ret |-> Void,
      called |-> FALSE, nret |-> 0,
      hasThrowing |-> FALSE, raised |-> FALSE, exc |-> NoError,
      sameStore |-> TRUE ]

\* the holders of store s: contexts and streams
CtxHolders(s) == {c \in Ctx : ctx[c].alive /\ ctx[c].m_impl = s}
StreamHolders(s) == {t \in Stream : streams[t] = s}

\* a context that may be configured, moved from or handed to a stream: alive
\* and not moved-from.  Every member function dereferences m_impl without a
\* test, and using a moved-from context is excluded by the interface.
Usable(c) == ctx[c].alive /\ ctx[c].m_impl # nullptr

\* native_handle() { return m_impl->cred; }
native_handle(c) == impl[ctx[c].m_impl].cred

\* no call is being observed: the caller is between two operations
Idle == last.op = "none"

(***************************************************************************)
(* std::shared_ptr<impl>: dropping one reference to store s.  The last     *)
(* reference runs impl::~impl, which frees the native handle.              *)
(***************************************************************************)
SharedRelease_AlwaysFrees(I, N, s) ==
    IF s = nullptr THEN [impl |-> I, native |-> N]
    ELSE [ impl |-> [I EXCEPT ![s].use_count = @ - 1, ![s].state = "destroyed"],
           native |-> [N EXCEPT ![I[s].cred].state = "freed",
                                ![I[s].cred].frees = @ + 1] ]

SharedRelease(I, N, s) ==
    IF s = nullptr THEN [impl |-> I, native |-> N]
    ELSE IF I[s].use_count > 1
         THEN [impl |-> [I EXCEPT ![s].use_count = @ - 1], native |-> N]
         ELSE [ impl |-> [I EXCEPT ![s].use_count = 0, ![s].state = "destroyed"],
                native |-> [N EXCEPT ![I[s].cred].state = "freed",
                                     ![I[s].cred].frees = @ + 1] ]

(***************************************************************************)
(* Construction, destruction and moves of a context.                       *)
(***************************************************************************)
\* context(method m): make_shared<impl>(this, m); the handle is allocated
Construct(c, m) ==
    /\ Idle
    /\ ~ctx[c].alive
    /\ nextStore <= MaxStores
    /\ LET s == nextStore
       IN  /\ impl' = [impl EXCEPT ![s] = NewImpl(c, m, s)]
           /\ native' = [native EXCEPT ![s] =
                  [NoHandle EXCEPT !.state = "allocated", !.allocs = 1,
                                   !.dh = "medium"]]
           /\ ctx' = [ctx EXCEPT ![c] = [alive |-> TRUE, m_impl |-> s]]
           /\ hist' = [hist EXCEPT ![s] = [m |-> m, certEver |-> FALSE]]
           /\ last' = [NoCall EXCEPT !.op = "construct", !.c = c, !.store = s]
    /\ nextStore' = nextStore + 1
    /\ UNCHANGED <<streams, ec>>

\* context(method m) when the engine cannot allocate a handle: impl's
\* constructor throws, and no store and no context come to exist
ConstructFails(c, m) ==
    /\ Idle
    /\ ~ctx[c].alive
    /\ nextStore <= MaxStores
    /\ \E aret \in AllocResults \ {GNUTLS_E_SUCCESS} :
          last' = [NoCall EXCEPT !.op = "construct", !.c = c, !.raised = TRUE,
                                 !.nret = aret]
    /\ UNCHANGED <<ctx, impl, native, streams, nextStore, ec, hist>>

\* ~context(): the back-reference is nulled, then m_impl is released
Destroy(c) ==
    /\ Idle
    /\ ctx[c].alive
    /\ LET s == ctx[c].m_impl
           I1 == IF s # nullptr THEN [impl EXCEPT ![s].parent = nullptr] ELSE impl
           r == SharedRelease(I1, native, s)
       IN  /\ impl' = r.impl
           /\ native' = r.native
           /\ last' = [NoCall EXCEPT !.op = "destroy", !.c = c, !.store = s]
    /\ ctx' = [ctx EXCEPT ![c] = NoContext]
    /\ UNCHANGED <<streams, nextStore, ec, hist>>

\* operator=(context&& other), on `this` = d with m_impl = held:
\* m_impl = std::move(other.m_impl); m_impl->parent = this
MoveInto_KeepsParent(d, held, o) ==
    LET s == ctx[o].m_impl
        r == SharedRelease(impl, native, held)
    IN  /\ impl' = r.impl
        /\ native' = r.native
        /\ ctx' = [ctx EXCEPT ![d] = [alive |-> TRUE, m_impl |-> s],
                              ![o].m_impl = nullptr]

MoveInto(d, held, o) ==
    LET s == ctx[o].m_impl
        r == SharedRelease(impl, native, held)
    IN  /\ impl' = [r.impl EXCEPT ![s].parent = d]
        /\ native' = r.native
        /\ ctx' = [ctx EXCEPT ![d] = [alive |-> TRUE, m_impl |-> s],
                              ![o].m_impl = nullptr]

\* d = std::move(o), between two contexts; o holds a store (a moved-from
\* context must not be used)
MoveAssign(d, o) ==
    /\ Idle
    /\ d # o
    /\ ctx[d].alive
    /\ Usable(o)
    /\ MoveInto(d, ctx[d].m_impl, o)
    /\ last' = [NoCall EXCEPT !.op = "move_assign", !.c = d, !.src = o,
                              !.store = ctx[o].m_impl]
    /\ UNCHANGED <<streams, nextStore, ec, hist>>

\* context(context&& other) { *this = std::move(other); }
MoveConstruct(d, o) ==
    /\ Idle
    /\ d # o
    /\ ~ctx[d].alive
    /\ Usable(o)
    /\ MoveInto(d, nullptr, o)
    /\ last' = [NoCall EXCEPT !.op = "move_construct", !.c = d, !.src = o,
                              !.store = ctx[o].m_impl]
    /\ UNCHANGED <<streams, nextStore, ec, hist>>

(***************************************************************************)
(* A stream (friend of context) takes a copy of the context's m_impl, and  *)
(* drops it when it is destroyed.                                          *)
(***************************************************************************)
StreamAcquire(t, c) ==
    /\ Idle
    /\ streams[t] = nullptr
    /\ Usable(c)
    /\ LET s == ctx[c].m_impl
       IN  /\ streams' = [streams EXCEPT ![t] = s]
           /\ impl' = [impl EXCEPT ![s].use_count = @ + 1]
           /\ last' = [NoCall EXCEPT !.op = "stream_acquire", !.c = c, !.store = s]
    /\ UNCHANGED <<ctx, native, nextStore, ec, hist>>

StreamRelease(t) ==
    /\ Idle
    /\ streams[t] # nullptr
    /\ LET s == streams[t]
           r == SharedRelease(impl, native, s)
       IN  /\ impl' = r.impl
           /\ native' = r.native
           /\ last' = [NoCall EXCEPT !.op = "stream_release", !.store = s]
    /\ streams' = [streams EXCEPT ![t] = nullptr]
    /\ UNCHANGED <<ctx, nextStore, ec, hist>>

(***************************************************************************)
(* A call of a mutator on context c.  Both forms are evaluated from the    *)
(* state of the call: the form that is called decides the next state, and  *)
(* `last` records what each form reports.                                  *)
(***************************************************************************)
CallRecord(c, s, op, form, r, t, nret) ==
    [NoCall EXCEPT !.op = op, !.form = form, !.c = c, !.store = s,
                   !.ecIn = ec, !.ecOut = r.ec, !.ret = r.ret,
                   !.called = IF form = "throwing" THEN t.called ELSE r.called,
                   !.nret = IF r.called \/ t.called THEN nret ELSE 0,
                   !.hasThrowing = op \in ThrowingForms,
                   !.raised = t.raised, !.exc = t.exc,
                   !.sameStore = (t.st = r.st /\ t.cr = r.cr)]

\* the throwing form where there is one; otherwise nothing to run
ThrowingOrNone(op, st, cr, arg, format, nret) ==
    IF op \in ThrowingForms
    THEN ThrowingForm(op, st, cr, arg, format, nret)
    ELSE [st |-> st, cr |-> cr, raised |-> FALSE, exc |-> NoError, called |-> FALSE]

\* op(arg, format, ec)
CallNonThrowing(c, op, arg, format, nret) ==
    /\ Idle
    /\ Usable(c)
    /\ LET s == ctx[c].m_impl
           h == impl[s].cred
           r == NonThrowingForm(op, impl[s], native[h], arg, format, ec, nret)
           t == ThrowingOrNone(op, impl[s], native[h], arg, format, nret)
       IN  /\ r.cr.keys <= MaxInstalls
           /\ r.cr.trust <= MaxInstalls
           /\ impl' = [impl EXCEPT ![s] = r.st]
           /\ native' = [native EXCEPT ![h] = r.cr]
           /\ ec' = r.ec
           /\ hist' = IF op \in CertificateOps
                      THEN [hist EXCEPT ![s].certEver = TRUE] ELSE hist
           /\ last' = CallRecord(c, s, op, "non-throwing", r, t, nret)
    /\ UNCHANGED <<ctx, streams, nextStore>>

\* op(arg, format): the caller's error_code is not involved
CallThrowing(c, op, arg, format, nret) ==
    /\ Idle
    /\ Usable(c)
    /\ op \in ThrowingForms
    /\ LET s == ctx[c].m_impl
           h == impl[s].cred
           r == NonThrowingForm(op, impl[s], native[h], arg, format, ec, nret)
           t == ThrowingForm(op, impl[s], native[h], arg, format, nret)
       IN  /\ t.cr.keys <= MaxInstalls
           /\ t.cr.trust <= MaxInstalls
           /\ impl' = [impl EXCEPT ![s] = t.st]
           /\ native' = [native EXCEPT ![h] = t.cr]
           /\ hist' = IF op \in CertificateOps
                      THEN [hist EXCEPT ![s].certEver = TRUE] ELSE hist
           /\ last' = CallRecord(c, s, op, "throwing", r, t, nret)
    /\ UNCHANGED <<ctx, streams, nextStore, ec>>

\* the values the calls are made with
OptionInputs == {0, no_sslv3}
VerifyInputs == {verify_none, verify_peer}
PassInputs == {"", "secret"}
CertFileInputs == {"", "cert.pem"}
KeyFileInputs == {"key.pem"}
CertInputs == {"", "CERT"}
KeyInputs == {"KEY"}
DhInputs == {""}
CaInputs == {"CA"}

SetOptions(c) ==
    \E o \in OptionInputs : CallNonThrowing(c, "set_options", o, "pem", 0)
ClearOptions(c) ==
    CallNonThrowing(c, "clear_options", 0, "pem", 0)
SetDefaultVerifyPaths(c) ==
    \E n \in TrustResults : CallNonThrowing(c, "set_default_verify_paths", 0, "pem", n)
SetVerifyMode(c) ==
    \E v \in VerifyInputs : CallNonThrowing(c, "set_verify_mode", v, "pem", 0)
SetVerifyCallback(c) ==
    CallNonThrowing(c, "set_verify_callback", "callback", "pem", 0)
UsePassphrase(c) ==
    \E p \in PassInputs : CallNonThrowing(c, "use_passphrase", p, "pem", 0)
UseCertificateFile(c) ==
    \E f \in CertFileInputs : CallNonThrowing(c, "use_certificate_file", f, "pem", 0)
UsePrivateKeyFile(c) ==
    \E f \in KeyFileInputs, fmt \in FileFormats, n \in KeyInstallResults :
        CallNonThrowing(c, "use_private_key_file", f, fmt, n)
UseTmpDhFile(c) ==
    \E f \in DhInputs : CallNonThrowing(c, "use_tmp_dh_file", f, "pem", 0)
UseCertificate(c) ==
    \E b \in CertInputs : CallNonThrowing(c, "use_certificate", b, "pem", 0)
UsePrivateKey(c) ==
    \E b \in KeyInputs, fmt \in FileFormats, n \in KeyInstallResults :
        CallNonThrowing(c, "use_private_key", b, fmt, n)
UseTmpDh(c) ==
    \E b \in DhInputs : CallNonThrowing(c, "use_tmp_dh", b, "pem", 0)
SetServernameCallback(c) ==
    CallNonThrowing(c, "set_servername_callback", "callback", "pem", 0)
SetVerifyTrust(c) ==
    \E b \in CaInputs, fmt \in FileFormats, n \in TrustResults :
        CallNonThrowing(c, "set_verify_trust", b, fmt, n)

SetOptionsThrowing(c) ==
    \E o \in OptionInputs : CallThrowing(c, "set_options", o, "pem", 0)
ClearOptionsThrowing(c) ==
    CallThrowing(c, "clear_options", 0, "pem", 0)
SetDefaultVerifyPathsThrowing(c) ==
    \E n \in TrustResults : CallThrowing(c, "set_default_verify_paths", 0, "pem", n)
SetVerifyModeThrowing(c) ==
    \E v \in VerifyInputs : CallThrowing(c, "set_verify_mode", v, "pem", 0)
SetVerifyCallbackThrowing(c) ==
    CallThrowing(c, "set_verify_callback", "callback", "pem", 0)
UsePassphraseThrowing(c) ==
    \E p \in PassInputs : CallThrowing(c, "use_passphrase", p, "pem", 0)
UseCertificateFileThrowing(c) ==
    \E f \in CertFileInputs : CallThrowing(c, "use_certificate_file", f, "pem", 0)
UsePrivateKeyFileThrowing(c) ==
    \E f \in KeyFileInputs, fmt \in FileFormats, n \in KeyInstallResults :
        CallThrowing(c, "use_private_key_file", f, fmt, n)
UseTmpDhFileThrowing(c) ==
    \E f \in DhInputs : CallThrowing(c, "use_tmp_dh_file", f, "pem", 0)
UseCertificateThrowing(c) ==
    \E b \in CertInputs : CallThrowing(c, "use_certificate", b, "pem", 0)
UsePrivateKeyThrowing(c) ==
    \E b \in KeyInputs, fmt \in FileFormats, n \in KeyInstallResults :
        CallThrowing(c, "use_private_key", b, fmt, n)
UseTmpDhThrowing(c) ==
    \E b \in DhInputs : CallThrowing(c, "use_tmp_dh", b, "pem", 0)

\* the caller passes a fresh (default constructed) error_code from now on
FreshErrorCode ==
    /\ Idle
    /\ ec # NoError
    /\ ec' = NoError
    /\ last' = NoCall
    /\ UNCHANGED <<ctx, impl, native, streams, nextStore, hist>>

\* the caller has taken note of what the operation reported
Return ==
    /\ ~Idle
    /\ last' = NoCall
    /\ UNCHANGED <<ctx, impl, native, streams, nextStore, ec, hist>>

(***************************************************************************)
(* Specifications.                                                         *)
(***************************************************************************)
Empty ==
    /\ ctx = [c \in Ctx |-> NoContext]
    /\ impl = [s \in StoreId |-> NoImpl]
    /\ native = [s \in StoreId |-> NoHandle]
    /\ streams = [t \in Stream |-> nullptr]
    /\ nextStore = 1
    /\ ec = NoError
    /\ hist = [s \in StoreId |-> NoHist]
    /\ last = NoCall

\* the methods the configuration runs are made with
ConfigMethods == {tlsv12_client}

\* Spec: one context, just constructed, and every mutator in both forms
Init ==
    /\ \E m \in ConfigMethods :
        /\ ctx = [c \in Ctx |-> IF c = 1 THEN [alive |-> TRUE, m_impl |-> 1]
                                ELSE NoContext]
        /\ impl = [s \in StoreId |-> IF s = 1 THEN NewImpl(1, m, 1) ELSE NoImpl]
        /\ hist = [s \in StoreId |-> IF s = 1 THEN [m |-> m, certEver |-> FALSE]
                                     ELSE NoHist]
    /\ native = [s \in StoreId |->
                    IF s = 1 THEN [NoHandle EXCEPT !.state = "allocated",
                                                   !.allocs = 1, !.dh = "medium"]
                    ELSE NoHandle]
    /\ streams = [t \in Stream |-> nullptr]
    /\ nextStore = 2
    /\ ec = NoError
    /\ last = NoCall

Next ==
    \/ \E c \in Ctx :
        \/ SetOptions(c)
        \/ ClearOptions(c)
        \/ SetDefaultVerifyPaths(c)
        \/ SetVerifyMode(c)
        \/ SetVerifyCallback(c)
        \/ UsePassphrase(c)
        \/ UseCertificateFile(c)
        \/ UsePrivateKeyFile(c)
        \/ UseTmpDhFile(c)
        \/ UseCertificate(c)
        \/ UsePrivateKey(c)
        \/ UseTmpDh(c)
        \/ SetServernameCallback(c)
        \/ SetVerifyTrust(c)
        \/ SetOptionsThrowing(c)
        \/ ClearOptionsThrowing(c)
        \/ SetDefaultVerifyPathsThrowing(c)
        \/ SetVerifyModeThrowing(c)
        \/ SetVerifyCallbackThrowing(c)
        \/ UsePassphraseThrowing(c)
        \/ UseCertificateFileThrowing(c)
        \/ UsePrivateKeyFileThrowing(c)
        \/ UseTmpDhFileThrowing(c)
        \/ UseCertificateThrowing(c)
        \/ UsePrivateKeyThrowing(c)
        \/ UseTmpDhThrowing(c)
    \/ FreshErrorCode
    \/ Return

Spec == Init /\ [][Next]_vars

\* the methods the lifecycle runs are made with
LifeMethods == {tls_server}

\* SpecLife: contexts constructed, moved and destroyed, streams taking and
\* dropping references, and the verify mode of stores set in between
NextLife ==
    \/ \E c \in Ctx, m \in LifeMethods : Construct(c, m)
    \/ \E c \in Ctx, m \in LifeMethods : ConstructFails(c, m)
    \/ \E c \in Ctx : Destroy(c)
    \/ \E d \in Ctx, o \in Ctx : MoveAssign(d, o)
    \/ \E d \in Ctx, o \in Ctx : MoveConstruct(d, o)
    \/ \E t \in Stream, c \in Ctx : StreamAcquire(t, c)
    \/ \E t \in Stream : StreamRelease(t)
    \/ \E c \in Ctx : SetVerifyMode(c)
    \/ Return

SpecLife == Empty /\ [][NextLife]_vars

\* SpecMethod: contexts constructed with every method constant, moved and
\* destroyed
NextMethod ==
    \/ \E c \in Ctx, m \in Methods : Construct(c, m)
    \/ \E c \in Ctx : Destroy(c)
    \/ \E d \in Ctx, o \in Ctx : MoveAssign(d, o)
    \/ \E d \in Ctx, o \in Ctx : MoveConstruct(d, o)
    \/ Return

SpecMethod == Empty /\ [][NextMethod]_vars

(***************************************************************************)
(* Properties.                                                             *)
(***************************************************************************)
NonThrowingCall == last.form = "non-throwing"
ThrowingCall == last.form = "throwing"

\* C1: a private-key installation (buffer or file form, throwing or not) on
\* a store on which no use-certificate call was ever made reports
\* operation_not_supported, does not invoke the engine's key-pair install,
\* and leaves every store and every native handle as it was.
C1_KeyWithoutCertificate ==
    [][ (last'.op \in KeyInstallOps /\ ~hist[last'.store].certEver) =>
          /\ last'.form = "non-throwing" =>
                (last'.ret = operation_not_supported /\ ec' = operation_not_supported)
          /\ last'.form = "throwing" =>
                (last'.raised /\ last'.exc = operation_not_supported)
          /\ ~last'.called
          /\ impl' = impl
          /\ native' = native ]_vars

C1_Witness ==
    /\ last.op \in KeyInstallOps
    /\ ~hist[last.store].certEver
    /\ NonThrowingCall
    /\ last.ret = operation_not_supported

\* C2: set_default_verify_paths reports an error exactly when the engine's
\* system-trust load returns a negative status, and the error then carries
\* that status; a result of zero or more reports no failure.
C2_ErrorOnlyOnNegativeStatus ==
    (last.op = "set_default_verify_paths" /\ ~Failed(last.ecIn)) =>
        /\ NonThrowingCall =>
              /\ Failed(last.ecOut) <=> last.nret < 0
              /\ last.nret < 0 => last.ecOut = SslError(last.nret)
        /\ ThrowingCall => (last.raised <=> last.nret < 0)

\* C3: the native handle of a store is allocated once, when the store is
\* constructed, and freed once; it is freed exactly when no context and no
\* stream holds the store any more, and never while one still does.
C3_HandleFreedWithLastHolder ==
    \A s \in StoreId :
        LET h == impl[s].cred
            holders == Cardinality(CtxHolders(s)) + Cardinality(StreamHolders(s))
        IN  IF s >= nextStore
            THEN impl[s].state = "none" /\ native[s].allocs = 0 /\ native[s].frees = 0
            ELSE /\ h = s
                 /\ native[h].allocs = 1
                 /\ native[h].frees <= 1
                 /\ native[h].frees = 1 <=> holders = 0
                 /\ native[h].state = "allocated" <=> holders > 0
                 /\ impl[s].state = "live" <=> holders > 0
                 /\ impl[s].use_count = holders

C3_Witness ==
    /\ last.op = "stream_release"
    /\ native[impl[last.store].cred].frees = 1
    /\ \E t \in Stream, s \in StoreId :
          streams[t] = nullptr /\ s # last.store /\ impl[s].state = "live"

\* C4: a move (assignment or construction) from a context that holds a
\* store into another context: the destination's native_handle() is the
\* source's native_handle() of before, the source ends empty, the store's
\* back-reference is the destination, and the store's configuration and
\* its native handle are as before.
C4_MoveTransfersStore ==
    [][ last'.op \in {"move_assign", "move_construct"} =>
          LET d == last'.c
              o == last'.src
              s == ctx[o].m_impl
          IN  /\ s # nullptr
              /\ ctx'[d].alive
              /\ ctx'[d].m_impl = s
              /\ impl'[ctx'[d].m_impl].cred = native_handle(o)
              /\ ctx'[o].alive
              /\ ctx'[o].m_impl = nullptr
              /\ impl'[s].parent = d
              /\ impl'[s].state = "live"
              /\ impl'[s].use_count = impl[s].use_count
              /\ Config(impl'[s]) = Config(impl[s])
              /\ native'[impl[s].cred] = native[impl[s].cred] ]_vars

C4_Witness ==
    /\ last.op = "move_assign"
    /\ impl[last.store].verify = verify_peer
    /\ impl[last.store].parent = last.c
    /\ \E s \in StoreId :
          /\ s # last.store
          /\ impl[s].state = "destroyed"
          /\ impl[s].verify = verify_none

\* C5: the back-reference of every live store is null or names a live
\* context that holds that very store.
C5_BackReferenceNullOrOwner ==
    \A s \in StoreId :
        impl[s].state = "live" =>
            \/ impl[s].parent = nullptr
            \/ /\ ctx[impl[s].parent].alive
               /\ ctx[impl[s].parent].m_impl = s

\* what C6 expects of the method constants
ServerConstants ==
    {tls_server, tlsv1_server, tlsv11_server, tlsv12_server, tlsv13_server,
     sslv23_server}
UnconstrainedConstants == {tls, tls_client, tls_server}
ForcedVersionGroups ==
    { {tlsv1, tlsv1_client, tlsv1_server},
      {tlsv11, tlsv11_client, tlsv11_server},
      {tlsv12, tlsv12_client, tlsv12_server},
      {tlsv13, tlsv13_client, tlsv13_server} }

\* C6: for every method constant a store was constructed with, the store
\* still holds that value, is_server() is true exactly for the *_server
\* constants, tls_version() is 0 exactly for tls, tls_client and tls_server,
\* and two stores with forced versions have the same tls_version() exactly
\* when their constants force the same version.
C6_AccessorsDecodeMethod ==
    \A s \in StoreId :
        impl[s].state = "live" =>
            /\ impl[s].m = hist[s].m
            /\ is_server(impl[s]) <=> hist[s].m \in ServerConstants
            /\ tls_version(impl[s]) = 0 <=> hist[s].m \in UnconstrainedConstants
            /\ \A s2 \in StoreId, g1 \in ForcedVersionGroups, g2 \in ForcedVersionGroups :
                  (impl[s2].state = "live" /\ hist[s].m \in g1 /\ hist[s2].m \in g2) =>
                      (tls_version(impl[s]) = tls_version(impl[s2]) <=> g1 = g2)

\* C7 as stated: use_tmp_dh and use_tmp_dh_file never report an error, in
\* whatever state they are called: the non-throwing form's resulting
\* error code indicates no failure and the throwing form does not raise.
C7_DhNeverReportsError ==
    last.op \in DhOps =>
        /\ NonThrowingCall => (~Failed(last.ecOut) /\ ~Failed(last.ret))
        /\ ThrowingCall => ~last.raised

\* C7 as amended: use_tmp_dh and use_tmp_dh_file change nothing: every
\* store, every native handle and the caller's error code are as before;
\* the throwing form does not raise, and the non-throwing form returns the
\* error code it was given, so it reports no error when the code indicated
\* none on entry.
C7_DhChangesNothing ==
    [][ last'.op \in DhOps =>
          /\ impl' = impl
          /\ native' = native
          /\ ctx' = ctx
          /\ ec' = ec
          /\ last'.form = "throwing" => ~last'.raised
          /\ last'.form = "non-throwing" =>
                /\ last'.ret = ec
                /\ ~Failed(ec) => (~Failed(last'.ret) /\ ~Failed(ec')) ]_vars

C7_Witness ==
    /\ last.op \in DhOps
    /\ NonThrowingCall
    /\ ~Failed(last.ret)
    /\ impl[last.store].private_key # ""
    /\ impl[last.store].passphrase # ""
    /\ native[impl[last.store].cred].keys = 1

\* what the non-throwing form of the call in `last` reports
Reports == Failed(last.ecOut) \/ Failed(last.ret)

\* C8 as stated: every mutator has a throwing form, which raises exactly
\* when the non-throwing form, run from the same state with the same
\* input, reports an error, with the same code, and both forms leave the
\* store and its native handle in the same state.
C8_EveryMutatorHasEquivalentForms ==
    last.op \in Mutators =>
        /\ last.hasThrowing
        /\ last.raised <=> Reports
        /\ last.raised => last.exc = last.ecOut
        /\ last.sameStore

\* C8 as amended: every mutator but set_servername_callback and
\* set_verify_trust has a throwing form; it leaves the store and its native
\* handle as the non-throwing form does, and it raises exactly when the
\* non-throwing form, given an error code that indicates no failure on
\* entry, reports an error, with the same code.
C8_FormsEquivalentOnFreshErrorCode ==
    last.op \in Mutators =>
        /\ last.hasThrowing <=>
              last.op \notin {"set_servername_callback", "set_verify_trust"}
        /\ last.hasThrowing =>
              /\ last.sameStore
              /\ ~Failed(last.ecIn) =>
                    /\ last.raised <=> Reports
                    /\ last.raised => last.exc = last.ecOut

C8_Witness ==
    /\ last.op = "use_private_key"
    /\ ThrowingCall
    /\ last.called
    /\ last.raised
    /\ last.exc = SslError(last.nret)
    /\ ~Failed(last.ecIn)

\* C9 as stated: once a use-certificate call (either form, any length) was
\* made on the store, a private-key installation never reports
\* operation_not_supported.
C9_NoSequencingErrorAfterCertificate ==
    (last.op \in KeyInstallOps /\ hist[last.store].certEver) =>
        /\ NonThrowingCall => last.ret # operation_not_supported
        /\ ThrowingCall => ~(last.raised /\ last.exc = operation_not_supported)

\* the certificate material a key installation pairs with: the buffer for
\* use_private_key, the file name for use_private_key_file
PairedCertificate ==
    IF last.op = "use_private_key"
    THEN impl[last.store].certificate
    ELSE impl[last.store].certificate_file

\* C9 as amended: a private-key installation hits the sequencing error
\* exactly when the certificate material of its own form is empty (never
\* stored, or stored with length zero); otherwise it invokes the engine and
\* does not set operation_not_supported: the throwing form succeeds or
\* raises the engine's status, and the non-throwing form, given an error
\* code that indicates no failure, returns success or the engine's status,
\* and returns operation_not_supported only if that was the code on entry.
C9_SequencingErrorIffPairedCertificateEmpty ==
    last.op \in KeyInstallOps =>
        /\ PairedCertificate = "" =>
              /\ ~last.called
              /\ NonThrowingCall => last.ret = operation_not_supported
              /\ ThrowingCall => (last.raised /\ last.exc = operation_not_supported)
        /\ PairedCertificate # "" =>
              /\ last.called
              /\ ThrowingCall =>
                    /\ last.raised <=> last.nret < 0
                    /\ last.raised => last.exc = SslError(last.nret)
              /\ NonThrowingCall =>
                    /\ last.ret = operation_not_supported =>
                          (last.ecIn = operation_not_supported /\ last.nret = 0)
                    /\ ~Failed(last.ecIn) =>
                          last.ret = IF last.nret < 0 THEN SslError(last.nret)
                                     ELSE NoError

C9_Witness ==
    /\ last.op = "use_private_key"
    /\ NonThrowingCall
    /\ hist[last.store].certEver
    /\ PairedCertificate # ""
    /\ last.called
    /\ last.nret = 0
    /\ last.ecIn = NoError
    /\ last.ret = NoError

\* the operation of the call in `last` fails: the sequencing error, or a
\* negative status of the engine
OperationFails ==
    \/ last.op \in KeyInstallOps /\ ~last.called
    \/ last.called /\ last.nret < 0

\* C10: a non-throwing mutator whose operation does not fail leaves the
\* error code as it was on entry and returns that value; the error code
\* changes only when the operation fails.
C10_ErrorCodeKeptUnlessOperationFails ==
    (last.op \in Mutators /\ NonThrowingCall) =>
        /\ ~OperationFails =>
              /\ last.ecOut = last.ecIn
              /\ last.ret # Void => last.ret = last.ecIn
        /\ last.ecOut # last.ecIn => OperationFails

=============================================================================
